---- MODULE Spec2Model ----
(***************************************************************************)
(* Host side of the OTA update protocol (src/ota_host.py, class OTAHost).  *)
(* The model follows send_update_file through its calls of send_command    *)
(* and read_response.  Frames are byte sequences, built and checked with   *)
(* the XOR checksum exactly as the code does.  The ESP32 and the serial    *)
(* line are the environment: the device may answer a command at once,      *)
(* late, or never, with any frame; the line may deliver unsolicited        *)
(* frames; any write may fail.  What arrives is decided at each blocking   *)
(* read, the only place where the host observes the line.                  *)
(***************************************************************************)
EXTENDS Integers, Sequences, FiniteSets, TLC

VARIABLES
    pc,             \* position of the host in send_update_file
    file_exists,    \* os.path.exists(filepath)
    file_size,      \* len(file_data)
    new_version,    \* argument of send_update_file
    version_info,   \* result of get_version_info (NoVersion before)
    target_address, \* chosen bank (0 before the choice)
    attempt,        \* loop variable of the READY poll
    packet_num,     \* loop variable of the packet loop
    retry,          \* loop variable of the retry loop
    response,       \* last result of read_response: the Response
    wire,           \* every frame the host has written, in order
    devq,           \* commands written whose reply the host has not read
    hs_reads,       \* history: responses read while waiting for READY
    version_at,     \* history: Len(wire) when VERSION_INFO was accepted
    ready_at,       \* history: Len(wire) when READY was read in the poll
    reject_at,      \* history: hs_reads when the poll read ERROR or NACK
    all_ckerr,      \* history: every attempt of this packet so far was
                    \*          written and answered CHECKSUM_ERROR
    failed_attempts,\* history: attempts of this packet that ended
                    \*          without an ACK
    delivered,      \* history: per acknowledged packet, the number of
                    \*          CHECKSUM_ERROR answers before its ACK
                    \*          (None when an attempt failed otherwise)
    got_nack,       \* history: a SEND_PACKET was answered NACK
    abort_calls,    \* history: calls of send_command(ABORT_UPDATE)
    version_len,    \* history: len(data) of the response read for
                    \*          GET_VERSION (None before that read)
    version_resp,   \* history: the response code of that read
    fin_reads,      \* history: responses read after FINISH_UPDATE
    stray_ack,      \* history: an ACK was counted that was not the
                    \*          device's reply to the command it was
                    \*          counted for
    rx,             \* one call of read_response, byte by byte: its
                    \*          position, the bytes still on their way,
                    \*          the bytes in the port, header, data, result
    codec,          \* one frame from send_command's layout through the
                    \*          line to read_response: code, payload,
                    \*          frame, flipped bit, result
    chunking        \* the packet loop on its own: file size, packet_num,
                    \*          the SEND_PACKET payloads built so far

history == <<hs_reads, version_at, ready_at, reject_at, all_ckerr,
             failed_attempts, delivered, got_nack, abort_calls,
             version_len, version_resp, fin_reads, stray_ack>>

session == <<pc, file_exists, file_size, new_version, version_info,
             target_address, attempt, packet_num, retry, response,
             wire, devq, history>>

vars == <<session, rx, codec, chunking>>

(***************************************************************************)
(* Bounds of the model.                                                    *)
(***************************************************************************)
MaxVersion == 1      \* versions 0..MaxVersion reported, MaxVersion sent
MaxFileSize == 17    \* largest firmware image, in bytes
MaxPayloadLen == 2   \* longest payload of the frames decoded byte by byte
MaxChunkedSize == 48 \* largest file cut into packets on its own

(***************************************************************************)
(* Command and Response opcodes, OTAHost.__init__ configuration.           *)
(***************************************************************************)
INIT_UPDATE == 1
SEND_PACKET == 2
FINISH_UPDATE == 3
GET_VERSION == 4
ABORT_UPDATE == 5

ACK == 16
NACK == 17
READY == 18
CHECKSUM_ERROR == 19
VERSION_INFO == 20
ERROR == 21

\* Python's None, as the Response of a failed read_response
None == -1

ResponseCodes == {ACK, NACK, READY, CHECKSUM_ERROR, VERSION_INFO, ERROR}

packet_size == 16
max_retries == 3
version_1_address == 2097152
version_2_address == 3145728
MaxLength == 255     \* struct.pack('BB', cmd.value, length)

Min(a, b) == IF a < b THEN a ELSE b

(***************************************************************************)
(* Bytes: XOR and the little-endian struct formats.                        *)
(***************************************************************************)
RECURSIVE XorBits(_, _, _)
XorBits(a, b, n) ==
    IF n = 0 THEN 0
    ELSE ((a + b) % 2) + 2 * XorBits(a \div 2, b \div 2, n - 1)

\* a ^ b on bytes
Xor(a, b) == XorBits(a, b, 8)

\* s[1] ^ s[2] ^ ... ^ s[Len(s)], by halves (^ is associative; halving
\* keeps the evaluation of a 255-byte payload shallow)
RECURSIVE XorAll(_)
XorAll(s) ==
    IF s = <<>> THEN 0
    ELSE IF Len(s) = 1 THEN s[1]
    ELSE LET h == Len(s) \div 2
         IN  Xor(XorAll(SubSeq(s, 1, h)), XorAll(SubSeq(s, h + 1, Len(s))))

\* checksum = acc; for byte in s: checksum ^= byte
XorFold(acc, s) == Xor(acc, XorAll(s))

\* struct.pack('<I', n)
PackU32LE(n) ==
    <<n % 256, (n \div 256) % 256, (n \div 65536) % 256,
      (n \div 16777216) % 256>>

\* struct.unpack('<I', b)
UnpackU32LE(b) == b[1] + 256 * b[2] + 65536 * b[3] + 16777216 * b[4]

\* struct.pack('<H', n)
PackU16LE(n) == <<n % 256, (n \div 256) % 256>>

(***************************************************************************)
(* send_command: [CMD][LENGTH][DATA][XOR_CHECKSUM]                         *)
(***************************************************************************)
\* mutant: the checksum leaves out the length byte
CommandFrame_ChecksumSkipsLength(cmd, payload) ==
    <<cmd, Len(payload)>> \o payload \o <<XorFold(cmd, payload)>>

\* lines 84-92
CommandFrame(cmd, payload) ==
    LET packet == <<cmd, Len(payload)>> \o payload
    IN  packet \o <<XorFold(0, packet)>>

(***************************************************************************)
(* read_response on the bytes `buf` the serial reads can get before they   *)
(* time out: header (2 bytes), data (length bytes), checksum (1 byte).     *)
(* Each serial.read(n) returns the next n bytes, or fewer on timeout.      *)
(***************************************************************************)
NoResult == [response |-> None, data |-> <<>>]

read_response(buf) ==
    LET header == SubSeq(buf, 1, Min(2, Len(buf)))
    IN  IF Len(header) # 2 THEN NoResult
        ELSE
          LET response_code == header[1]
              length == header[2]
              rest == SubSeq(buf, 3, Len(buf))
              rdata == SubSeq(rest, 1, Min(length, Len(rest)))
              rest2 == SubSeq(rest, Len(rdata) + 1, Len(rest))
              checksum_byte == SubSeq(rest2, 1, Min(1, Len(rest2)))
              expected_checksum == XorFold(Xor(response_code, length), rdata)
          IN  IF Len(checksum_byte) # 1 THEN NoResult
              ELSE IF expected_checksum # checksum_byte[1] THEN NoResult
              ELSE IF response_code \in ResponseCodes
                   THEN [response |-> response_code, data |-> rdata]
                   ELSE NoResult

(***************************************************************************)
(* get_version_info: the decoded reply, or NoVersion.                      *)
(***************************************************************************)
NoVersion == [valid |-> FALSE, current_version |-> 0, backup_version |-> 0,
              current_address |-> 0, backup_address |-> 0]

\* mutant: the check len(data) == 16 is missing
get_version_info_AnyLength(r) ==
    IF r.response # VERSION_INFO THEN NoVersion
    ELSE IF Len(r.data) # 16 THEN [NoVersion EXCEPT !.valid = TRUE]
    ELSE [valid |-> TRUE,
          current_version |-> UnpackU32LE(SubSeq(r.data, 1, 4)),
          backup_version |-> UnpackU32LE(SubSeq(r.data, 5, 8)),
          current_address |-> UnpackU32LE(SubSeq(r.data, 9, 12)),
          backup_address |-> UnpackU32LE(SubSeq(r.data, 13, 16))]

\* lines 148-166
get_version_info(r) ==
    IF r.response # VERSION_INFO \/ Len(r.data) # 16 THEN NoVersion
    ELSE [valid |-> TRUE,
          current_version |-> UnpackU32LE(SubSeq(r.data, 1, 4)),
          backup_version |-> UnpackU32LE(SubSeq(r.data, 5, 8)),
          current_address |-> UnpackU32LE(SubSeq(r.data, 9, 12)),
          backup_address |-> UnpackU32LE(SubSeq(r.data, 13, 16))]

(***************************************************************************)
(* send_update_file: target bank, init payload, chunking.                  *)
(***************************************************************************)
\* mutant: the toggle is forgotten, the first bank is always chosen
TargetAddress_NoToggle(vi) == version_1_address

\* mutant: the check for a fresh device (current_version == 0) is missing
TargetAddress_NoFreshCheck(vi) ==
    IF vi.current_address = version_1_address THEN version_2_address
    ELSE version_1_address


TargetAddress(vi) ==
    IF vi.current_version = 0 THEN version_1_address
    ELSE IF vi.current_address = version_1_address THEN version_2_address
         ELSE version_1_address

init_data(nv, target, size) ==
    PackU32LE(nv) \o PackU32LE(target) \o PackU32LE(size)

\* the image: the pattern file_creator.py writes (0-based index i)
FileByte(i) ==
    IF i % 256 = 0 THEN 170 ELSE IF i % 128 = 0 THEN 85 ELSE i % 256

file_data(size) == [i \in 1..size |-> FileByte(i - 1)]

\* mutant: the last, partial chunk is dropped
total_packets_Floor(size) == size \div packet_size

\* line 243
total_packets(size) == (size + packet_size - 1) \div packet_size

\* mutant: the chunk offset is counted from packet 1 instead of packet 0
packet_data_OffsetByOne(size, num) ==
    LET offset == (num + 1) * packet_size
        end_offset == Min(offset + packet_size, size)
        chunk == SubSeq(file_data(size), offset + 1, end_offset)
    IN  IF Len(chunk) < packet_size
        THEN chunk \o [i \in 1..(packet_size - Len(chunk)) |-> 255]
        ELSE chunk

packet_data(size, num) ==
    LET offset == num * packet_size
        end_offset == Min(offset + packet_size, size)
        chunk == SubSeq(file_data(size), offset + 1, end_offset)
    IN  IF Len(chunk) < packet_size
        THEN chunk \o [i \in 1..(packet_size - Len(chunk)) |-> 255]
        ELSE chunk

packet_content(size, num) ==
    LET pd == packet_data(size, num)
    IN  PackU16LE(num) \o <<XorFold(0, pd)>> \o pd

\* mutant: the retry loop gives up one iteration early
MoreRetries_OneFewer(r) == r + 2 < max_retries

\* mutant: the retry loop runs one iteration too many
MoreRetries_OneMore(r) == r < max_retries

\* for retry in range(self.max_retries): is there another iteration?
MoreRetries(r) == r + 1 < max_retries

\* mutant: the READY poll gives up one iteration early
MoreAttempts_OneFewer(a) == a + 2 < max_retries

\* for attempt in range(self.max_retries): is there another iteration?
MoreAttempts(a) == a + 1 < max_retries

\* mutant: any positive response starts the transfer
IsReady_AckToo(resp) == resp \in {READY, ACK}

\* READY poll, line 215: the response that starts the transfer
IsReady(resp) == resp = READY

\* mutant: NACK is treated as an unexpected response and polled again
Rejects_ErrorOnly(resp) == resp = ERROR

\* READY poll, lines 218-234: the responses that end the session at once
Rejects(resp) == resp \in {ERROR, NACK}

\* mutant: NACK leaves the branch by continue instead of break
RetryAfter_NackRetried(resp) == resp # ACK

\* mutant: only a refusal fails the finalization
FinishOk_NotRefused(resp) == resp \notin {NACK, ERROR}

\* finalization, line 300: the response that completes the update
FinishOk(resp) == resp = ACK

\* retry loop, lines 270-280: after this response the loop goes on to its
\* next iteration (ACK and NACK leave it by break)
RetryAfter(resp) == resp # ACK /\ resp # NACK

(***************************************************************************)
(* The environment: what the device may report and what may arrive.        *)
(***************************************************************************)
VersionInfos ==
    [current_version : 0..MaxVersion, backup_version : {0},
     current_address : {version_1_address, version_2_address, 0},
     backup_address : {0}]

VersionPayload(v) ==
    PackU32LE(v.current_version) \o PackU32LE(v.backup_version) \o
    PackU32LE(v.current_address) \o PackU32LE(v.backup_address)

\* a frame as the device builds it (same layout in both directions)
ResponseFrame(code, payload) == CommandFrame(code, payload)

DeviceFrames ==
    {ResponseFrame(c, <<>>) : c \in {ACK, NACK, READY, CHECKSUM_ERROR, ERROR}}
    \cup {ResponseFrame(ERROR, <<3>>)}
    \cup {ResponseFrame(VERSION_INFO, VersionPayload(v)) : v \in VersionInfos}
    \cup {ResponseFrame(VERSION_INFO, PackU32LE(1))}   \* payload too short
    \cup {<<ACK, 0, 0>>}                               \* wrong checksum
    \cup {ResponseFrame(32, <<>>)}                     \* unknown code
    \cup {<<READY>>}                                   \* truncated header

Terminal == {"Completed", "Failed", "Aborted"}

TypeOK ==
    /\ pc \in {"Idle", "QueryingVersion", "SelectingTarget", "AwaitingReady",
               "Transferring", "AwaitingAck", "Finalizing", "AwaitingFinish"}
              \cup Terminal
    /\ file_exists \in BOOLEAN
    /\ file_size \in 0..MaxFileSize
    /\ new_version \in 1..MaxVersion
    /\ attempt \in 0..(max_retries - 1)
    /\ retry \in 0..(max_retries - 1)
    /\ packet_num \in 0..total_packets(MaxFileSize)
    /\ response \in ResponseCodes \cup {None}

SessionInit ==
    /\ pc = "Idle"
    /\ file_exists \in BOOLEAN
    /\ file_size \in {0, MaxFileSize - 1, MaxFileSize}
    /\ new_version = MaxVersion
    /\ version_info = NoVersion
    /\ target_address = 0
    /\ attempt = 0
    /\ packet_num = 0
    /\ retry = 0
    /\ response = None
    /\ wire = <<>>
    /\ devq = <<>>
    /\ hs_reads = 0
    /\ version_at = 0
    /\ ready_at = 0
    /\ reject_at = 0
    /\ all_ckerr = TRUE
    /\ failed_attempts = 0
    /\ delivered = <<>>
    /\ got_nack = FALSE
    /\ abort_calls = 0
    /\ version_len = None
    /\ version_resp = None
    /\ fin_reads = 0
    /\ stray_ack = FALSE

\* no read_response is traced byte by byte
RxOff == [pc |-> "Off", line |-> <<>>, port |-> <<>>, header |-> <<>>,
          data |-> <<>>, result |-> NoResult]

\* no frame is traced through the codec
CodecOff == [pc |-> "Off", code |-> None, payload |-> <<>>, frame |-> <<>>,
             bit |-> 0, result |-> NoResult]

\* the packet loop is not traced on its own
ChunkingOff == [pc |-> "Off", size |-> 0, packet_num |-> 0, sent |-> <<>>]

Init ==
    /\ SessionInit
    /\ rx = RxOff
    /\ codec = CodecOff
    /\ chunking = ChunkingOff

\* the session has not started
NoSession ==
    /\ SessionInit
    /\ file_exists = FALSE
    /\ file_size = 0

(***************************************************************************)
(* send_command(cmd, payload) with outcome ok: on success the frame is on  *)
(* the wire and reaches the device; on an exception nothing is sent.       *)
(***************************************************************************)
Written(ok, cmd, seq, payload) ==
    /\ wire' = IF ok THEN Append(wire, CommandFrame(cmd, payload)) ELSE wire
    /\ devq' = IF ok THEN Append(devq, [cmd |-> cmd, seq |-> seq]) ELSE devq

(***************************************************************************)
(* What one blocking read_response can return: the decoding of a frame     *)
(* the line delivers, or of nothing at all (the reads time out).           *)
(***************************************************************************)
ReadOutcomes == {read_response(f) : f \in DeviceFrames \cup {<<>>}}

\* mutant: the port is opened without a timeout, a read returns only when
\* the device has replied
Arrivals_Blocking == [r : ReadOutcomes, used : 1..Len(devq)]

(***************************************************************************)
(* What one blocking read_response finds.  used = i > 0: the frame read    *)
(* is the device's reply to the i-th unanswered command, the older ones    *)
(* are never answered; used = 0: a timeout, or a frame nobody asked for    *)
(* (line noise, a chatty device): every unanswered command stays so.       *)
(***************************************************************************)
Arrivals == [r : ReadOutcomes, used : 0..Len(devq)]

\* a line without noise: a frame is always the device's reply to a command
Solicited == {a \in Arrivals : a.used > 0 \/ a.r = read_response(<<>>)}

\* the same arrivals for a read whose caller looks at the Response only
\* (lines 214-236, 269-280, 299-300): the payload is dropped
\* a line without noise and a device that answers every command it
\* receives once, in order, with a well-formed frame: a read returns the
\* oldest reply not yet read, or nothing (the reply comes later)
Orderly ==
    {a \in Arrivals : \/ a.used = 1 /\ a.r.response # None
                      \/ a.used = 0 /\ a.r = read_response(<<>>)}

Heard(arrivals) ==
    {[r |-> [response |-> a.r.response, data |-> <<>>], used |-> a.used] :
        a \in arrivals}

Unanswered(a) == SubSeq(devq, a.used + 1, Len(devq))

\* the frame read is the device's reply to a command cmd with sequence seq
RepliesTo(a, cmd, seq) ==
    a.used > 0 /\ devq[a.used] = [cmd |-> cmd, seq |-> seq]

HostUnchanged ==
    UNCHANGED <<file_exists, file_size, new_version, rx, codec, chunking>>

\* lines 170-175, 150-151: file check, then GET_VERSION is written
Start ==
    /\ pc = "Idle"
    /\ \E ok \in BOOLEAN :
         /\ Written(file_exists /\ ok, GET_VERSION, 0, <<>>)
         /\ pc' = IF file_exists /\ ok THEN "QueryingVersion" ELSE "Failed"
    /\ HostUnchanged
    /\ UNCHANGED <<version_info, target_address, attempt, packet_num, retry,
                   response, history>>

\* lines 153-166, 175-178: the reply to GET_VERSION
ReadVersion(arrivals) ==
    /\ pc = "QueryingVersion"
    /\ \E a \in arrivals :
         LET r == a.r
             vi == get_version_info(r)
         IN  /\ response' = r.response
             /\ version_info' = vi
             /\ pc' = IF vi.valid THEN "SelectingTarget" ELSE "Failed"
             /\ version_at' = IF vi.valid THEN Len(wire) ELSE version_at
             /\ version_len' = Len(r.data)
             /\ version_resp' = r.response
             /\ devq' = Unanswered(a)
    /\ HostUnchanged
    /\ UNCHANGED <<target_address, attempt, packet_num, retry, wire,
                   hs_reads, ready_at, reject_at, all_ckerr, failed_attempts,
                   delivered, got_nack, abort_calls, fin_reads, stray_ack>>

\* lines 183-209: target bank, file read, INIT_UPDATE is written
SelectTarget ==
    /\ pc = "SelectingTarget"
    /\ target_address' = TargetAddress(version_info)
    /\ \E readable \in BOOLEAN, ok \in BOOLEAN :
         /\ Written(readable /\ ok, INIT_UPDATE, 0,
                    init_data(new_version, target_address', file_size))
         /\ pc' = IF readable /\ ok THEN "AwaitingReady" ELSE "Failed"
    /\ attempt' = 0
    /\ HostUnchanged
    /\ UNCHANGED <<version_info, packet_num, retry, response, history>>

\* lines 213-246: one iteration of the READY poll
AwaitReady(arrivals) ==
    /\ pc = "AwaitingReady"
    /\ \E a \in arrivals :
         LET r == a.r
         IN  /\ response' = r.response
             /\ devq' = Unanswered(a)
             /\ ready_at' = IF r.response = READY THEN Len(wire) ELSE ready_at
             /\ reject_at' = IF r.response \in {ERROR, NACK}
                             THEN hs_reads + 1 ELSE reject_at
             /\ IF IsReady(r.response)
                THEN /\ pc' = IF total_packets(file_size) > 0
                              THEN "Transferring" ELSE "Finalizing"
                     /\ attempt' = attempt
                ELSE IF Rejects(r.response)
                THEN /\ pc' = "Failed"
                     /\ attempt' = attempt
                ELSE IF MoreAttempts(attempt)
                THEN /\ pc' = "AwaitingReady"
                     /\ attempt' = attempt + 1
                ELSE /\ pc' = "Failed"
                     /\ attempt' = attempt
    /\ hs_reads' = hs_reads + 1
    /\ packet_num' = 0
    /\ retry' = 0
    /\ HostUnchanged
    /\ UNCHANGED <<version_info, target_address, wire, version_at, all_ckerr,
                   failed_attempts, delivered, got_nack, abort_calls,
                   version_len, version_resp, fin_reads, stray_ack>>

\* mutant: the failure path returns without sending ABORT_UPDATE
AbortWritten_NoAbort(q) ==
    /\ wire' = wire
    /\ devq' = q
    /\ abort_calls' = abort_calls
    /\ pc' = "Aborted"

\* mutant: after ABORT_UPDATE the host goes on to finalize
AbortWritten_ThenFinish(q) ==
    \E ok \in BOOLEAN :
      /\ wire' = IF ok THEN Append(wire, CommandFrame(ABORT_UPDATE, <<>>))
                 ELSE wire
      /\ devq' = IF ok THEN Append(q, [cmd |-> ABORT_UPDATE, seq |-> 0])
                 ELSE q
      /\ abort_calls' = abort_calls + 1
      /\ pc' = "Finalizing"

\* lines 282-285: the retry loop ended without success; q: the commands
\* still unanswered
AbortWritten(q) ==
    \E ok \in BOOLEAN :
      /\ wire' = IF ok THEN Append(wire, CommandFrame(ABORT_UPDATE, <<>>))
                 ELSE wire
      /\ devq' = IF ok THEN Append(q, [cmd |-> ABORT_UPDATE, seq |-> 0])
                 ELSE q
      /\ abort_calls' = abort_calls + 1
      /\ pc' = "Aborted"

\* lines 264-267: SEND_PACKET is written, or the write fails
SendPacket ==
    /\ pc = "Transferring"
    /\ \/ /\ Written(TRUE, SEND_PACKET, packet_num,
                     packet_content(file_size, packet_num))
          /\ pc' = "AwaitingAck"
          /\ UNCHANGED <<retry, all_ckerr, failed_attempts, abort_calls>>
       \/ /\ all_ckerr' = FALSE
          /\ failed_attempts' = failed_attempts + 1
          /\ IF MoreRetries(retry)
             THEN /\ retry' = retry + 1
                  /\ pc' = "Transferring"
                  /\ UNCHANGED <<wire, devq, abort_calls>>
             ELSE /\ retry' = retry
                  /\ AbortWritten(devq)
    /\ HostUnchanged
    /\ UNCHANGED <<version_info, target_address, attempt, packet_num,
                   response, hs_reads, version_at, ready_at, reject_at,
                   delivered, got_nack, version_len,
                   version_resp, fin_reads, stray_ack>>

\* lines 269-291: the reply to SEND_PACKET
ReadPacketResponse(arrivals) ==
    /\ pc = "AwaitingAck"
    /\ \E a \in arrivals :
         LET r == a.r
         IN  /\ response' = r.response
             /\ got_nack' = (got_nack \/ r.response = NACK)
             /\ stray_ack' = (stray_ack \/
                    (r.response = ACK /\
                     ~RepliesTo(a, SEND_PACKET, packet_num)))
             /\ IF r.response = ACK
                THEN /\ packet_num' = packet_num + 1
                     /\ retry' = 0
                     /\ all_ckerr' = TRUE
                     /\ failed_attempts' = 0
                     /\ delivered' = Append(delivered,
                                      IF all_ckerr THEN retry ELSE None)
                     /\ pc' = IF packet_num + 1 < total_packets(file_size)
                              THEN "Transferring" ELSE "Finalizing"
                     /\ devq' = Unanswered(a)
                     /\ UNCHANGED <<wire, abort_calls>>
                ELSE /\ packet_num' = packet_num
                     /\ all_ckerr' = (all_ckerr /\ r.response = CHECKSUM_ERROR)
                     /\ failed_attempts' = failed_attempts + 1
                     /\ delivered' = delivered
                     /\ IF RetryAfter(r.response) /\ MoreRetries(retry)
                        THEN /\ retry' = retry + 1
                             /\ pc' = "Transferring"
                             /\ devq' = Unanswered(a)
                             /\ UNCHANGED <<wire, abort_calls>>
                        ELSE /\ retry' = retry
                             /\ AbortWritten(Unanswered(a))
    /\ HostUnchanged
    /\ UNCHANGED <<version_info, target_address, attempt, hs_reads,
                   version_at, ready_at, reject_at, version_len,
                   version_resp, fin_reads>>

\* lines 295-297: FINISH_UPDATE is written
SendFinish ==
    /\ pc = "Finalizing"
    /\ \E ok \in BOOLEAN :
         /\ Written(ok, FINISH_UPDATE, 0, <<>>)
         /\ pc' = IF ok THEN "AwaitingFinish" ELSE "Failed"
    /\ HostUnchanged
    /\ UNCHANGED <<version_info, target_address, attempt, packet_num, retry,
                   response, history>>

\* lines 299-305: the reply to FINISH_UPDATE
ReadFinish(arrivals) ==
    /\ pc = "AwaitingFinish"
    /\ \E a \in arrivals :
         LET r == a.r
         IN  /\ response' = r.response
             /\ pc' = IF FinishOk(r.response) THEN "Completed" ELSE "Failed"
             /\ stray_ack' = (stray_ack \/
                    (r.response = ACK /\ ~RepliesTo(a, FINISH_UPDATE, 0)))
             /\ devq' = Unanswered(a)
    /\ fin_reads' = fin_reads + 1
    /\ HostUnchanged
    /\ UNCHANGED <<version_info, target_address, attempt, packet_num, retry,
                   wire, hs_reads, version_at, ready_at, reject_at, all_ckerr,
                   failed_attempts, delivered, got_nack, abort_calls,
                   version_len, version_resp>>

(***************************************************************************)
(* Spec: any device, any line.                                             *)
(***************************************************************************)
Next ==
    \/ Start
    \/ ReadVersion(Arrivals)
    \/ SelectTarget
    \/ AwaitReady(Heard(Arrivals))
    \/ SendPacket
    \/ ReadPacketResponse(Heard(Arrivals))
    \/ SendFinish
    \/ ReadFinish(Heard(Arrivals))

Spec == Init /\ [][Next]_vars

(***************************************************************************)
(* SpecQuiet: a line without noise.  Every frame the host reads is the     *)
(* device's reply to a command the host wrote; the reply may come after    *)
(* the read has timed out, or never.                                       *)
(***************************************************************************)
NextQuiet ==
    \/ Start
    \/ ReadVersion(Solicited)
    \/ SelectTarget
    \/ AwaitReady(Heard(Solicited))
    \/ SendPacket
    \/ ReadPacketResponse(Heard(Solicited))
    \/ SendFinish
    \/ ReadFinish(Heard(Solicited))

SpecQuiet == Init /\ [][NextQuiet]_vars

(***************************************************************************)
(* SpecOrderly: a device that answers each command exactly once, in the    *)
(* order received; a reply may arrive after the read that waited for it    *)
(* has timed out.                                                          *)
(***************************************************************************)
NextOrderly ==
    \/ Start
    \/ ReadVersion(Orderly)
    \/ SelectTarget
    \/ AwaitReady(Heard(Orderly))
    \/ SendPacket
    \/ ReadPacketResponse(Heard(Orderly))
    \/ SendFinish
    \/ ReadFinish(Heard(Orderly))

SpecOrderly == Init /\ [][NextOrderly]_vars

(***************************************************************************)
(* SpecReader: one call of read_response (lines 105-146), byte by byte.    *)
(* The device has written rx.line; its bytes reach the port one at a time, *)
(* at any moment.  serial.read(n) returns n bytes as soon as the port      *)
(* holds them, and what the port holds (fewer than n) when the timeout     *)
(* expires.                                                                *)
(***************************************************************************)
PayloadBytes == {0, 255, ERROR, Xor(ERROR, 1)}

Payloads ==
    UNION {[1..n -> PayloadBytes] : n \in 0..MaxPayloadLen}

Take(s, n) == SubSeq(s, 1, Min(n, Len(s)))
Drop(s, n) == SubSeq(s, Min(n, Len(s)) + 1, Len(s))

\* what the device writes: a frame, or a frame it stops in the middle of
ReaderLines ==
    {Take(ResponseFrame(c, p), k) :
        c \in {ACK, ERROR}, p \in Payloads, k \in 0..(MaxPayloadLen + 3)}


InitReader ==
    /\ NoSession
    /\ \E line \in ReaderLines : rx = [RxOff EXCEPT !.pc = "Header",
                                                     !.line = line]
    /\ codec = CodecOff
    /\ chunking = ChunkingOff

\* the next byte reaches the port
Arrive ==
    /\ rx.pc \in {"Header", "Data", "Checksum"}
    /\ rx.line # <<>>
    /\ rx' = [rx EXCEPT !.line = Tail(rx.line),
                        !.port = Append(rx.port, Head(rx.line))]
    /\ UNCHANGED <<session, codec, chunking>>

\* lines 111-117: header = self.serial.read(2)
ReadHeader ==
    /\ rx.pc = "Header"
    /\ LET header == Take(rx.port, 2)
       IN  rx' = IF Len(header) # 2
                 THEN [rx EXCEPT !.pc = "Done", !.port = Drop(rx.port, 2),
                                 !.result = NoResult]
                 ELSE [rx EXCEPT !.pc = "Data", !.port = Drop(rx.port, 2),
                                 !.header = header]
    /\ UNCHANGED <<session, codec, chunking>>

\* line 120: data = self.serial.read(length) if length > 0 else b''
ReadData ==
    /\ rx.pc = "Data"
    /\ LET length == rx.header[2]
       IN  rx' = [rx EXCEPT !.pc = "Checksum",
                            !.port = Drop(rx.port, length),
                            !.data = Take(rx.port, length)]
    /\ UNCHANGED <<session, codec, chunking>>

\* lines 121-144: checksum_byte = self.serial.read(1), the checks, the result
ReadChecksum ==
    /\ rx.pc = "Checksum"
    /\ LET response_code == rx.header[1]
           length == rx.header[2]
           checksum_byte == Take(rx.port, 1)
           expected_checksum == XorFold(Xor(response_code, length), rx.data)
       IN  rx' = [rx EXCEPT
                    !.pc = "Done",
                    !.port = Drop(rx.port, 1),
                    !.result =
                        IF Len(checksum_byte) # 1 THEN NoResult
                        ELSE IF expected_checksum # checksum_byte[1]
                        THEN NoResult
                        ELSE IF response_code \in ResponseCodes
                        THEN [response |-> response_code, data |-> rx.data]
                        ELSE NoResult]
    /\ UNCHANGED <<session, codec, chunking>>

NextReader ==
    \/ Arrive
    \/ ReadHeader
    \/ ReadData
    \/ ReadChecksum

SpecReader == InitReader /\ [][NextReader]_vars

(***************************************************************************)
(* SpecCodec: a frame is laid out as send_command lays it out (lines       *)
(* 82-92), at most one of its bits is flipped on the line, and             *)
(* read_response decodes the bytes that arrive.                            *)
(***************************************************************************)
\* the longest payload the length byte can declare
LongPayload == [i \in 1..MaxLength |-> FileByte(i)]

\* bit b (1-based, counted from the first byte's lowest bit) is inverted
FlipBit(frame, b) ==
    LET i == ((b - 1) \div 8) + 1
        k == (b - 1) % 8
    IN  [frame EXCEPT ![i] = Xor(frame[i], 2 ^ k)]

InitCodec ==
    /\ NoSession
    /\ rx = RxOff
    /\ chunking = ChunkingOff
    /\ \E code \in ResponseCodes, payload \in Payloads \cup {LongPayload} :
         codec = [CodecOff EXCEPT !.pc = "Encode", !.code = code,
                                  !.payload = payload]

Encode ==
    /\ codec.pc = "Encode"
    /\ codec' = [codec EXCEPT !.pc = "Encoded",
                              !.frame = CommandFrame(codec.code,
                                                     codec.payload)]
    /\ UNCHANGED <<session, rx, chunking>>

Corrupt ==
    /\ codec.pc = "Encoded"
    /\ \E b \in 1..(8 * Len(codec.frame)) :
         codec' = [codec EXCEPT !.pc = "Corrupted",
                                !.frame = FlipBit(codec.frame, b),
                                !.bit = b]
    /\ UNCHANGED <<session, rx, chunking>>

Decode ==
    /\ codec.pc \in {"Encoded", "Corrupted"}
    /\ codec' = [codec EXCEPT !.pc = "Done",
                              !.result = read_response(codec.frame)]
    /\ UNCHANGED <<session, rx, chunking>>

NextCodec ==
    \/ Encode
    \/ Corrupt
    \/ Decode

SpecCodec == InitCodec /\ [][NextCodec]_vars

(***************************************************************************)
(* SpecChunking: the packet loop of send_update_file (lines 243-261) on    *)
(* its own, every packet acknowledged at once, for files of 0 to           *)
(* MaxChunkedSize bytes.                                                   *)
(***************************************************************************)
InitChunking ==
    /\ NoSession
    /\ rx = RxOff
    /\ codec = CodecOff
    /\ \E size \in 0..MaxChunkedSize :
         chunking = [ChunkingOff EXCEPT !.pc = "Chunking", !.size = size]

\* one iteration of: for packet_num in range(total_packets)
BuildPacket ==
    /\ chunking.pc = "Chunking"
    /\ chunking.packet_num < total_packets(chunking.size)
    /\ chunking' = [chunking EXCEPT
                      !.packet_num = chunking.packet_num + 1,
                      !.sent = Append(chunking.sent,
                                      packet_content(chunking.size,
                                                     chunking.packet_num))]
    /\ UNCHANGED <<session, rx, codec>>

\* the loop ends
EndOfFile ==
    /\ chunking.pc = "Chunking"
    /\ chunking.packet_num >= total_packets(chunking.size)
    /\ chunking' = [chunking EXCEPT !.pc = "Done"]
    /\ UNCHANGED <<session, rx, codec>>

NextChunking ==
    \/ BuildPacket
    \/ EndOfFile

SpecChunking == InitChunking /\ [][NextChunking]_vars

(***************************************************************************)
(* The frames on the wire.                                                 *)
(***************************************************************************)
Sent(cmd) == {i \in DOMAIN wire : wire[i][1] = cmd}

\* target_address field of an INIT_UPDATE frame (payload bytes 5..8)
InitTarget(f) == UnpackU32LE(SubSeq(f, 7, 10))

\* sequence field of a SEND_PACKET frame (payload bytes 1..2)
PacketSeq(f) == f[3] + 256 * f[4]

SentPackets(seq) == {i \in Sent(SEND_PACKET) : PacketSeq(wire[i]) = seq}

(***************************************************************************)
(* C1 as stated: for every VersionInfo the device reports, the INIT_UPDATE *)
(* on the wire targets an address other than the reported current_address. *)
(***************************************************************************)
C1_NeverTargetsCurrent ==
    \A i \in Sent(INIT_UPDATE) :
        InitTarget(wire[i]) # version_info.current_address

(***************************************************************************)
(* C1 amended: when the device reports installed firmware (current_version *)
(* # 0), the INIT_UPDATE on the wire targets an address other than the     *)
(* reported current_address.                                               *)
(***************************************************************************)
C1_NeverTargetsInstalled ==
    \A i \in Sent(INIT_UPDATE) :
        version_info.current_version # 0 =>
            InitTarget(wire[i]) # version_info.current_address

C1_Witness ==
    /\ Sent(INIT_UPDATE) # {}
    /\ version_info.current_version # 0
    /\ version_info.current_address = version_1_address
    /\ InitTarget(wire[2]) = version_2_address

(***************************************************************************)
(* C2: the target in the INIT_UPDATE on the wire follows the reference     *)
(* rule: version 0 gives bank A (0x200000); otherwise bank A running gives *)
(* bank B (0x300000) and bank B running gives bank A; the target is always *)
(* one of the two banks.                                                   *)
(***************************************************************************)
C2_TargetRule ==
    \A i \in Sent(INIT_UPDATE) :
        LET t == InitTarget(wire[i])
            cv == version_info.current_version
            ca == version_info.current_address
        IN  /\ cv = 0 => t = 2097152
            /\ (cv # 0 /\ ca = 2097152) => t = 3145728
            /\ (cv # 0 /\ ca = 3145728) => t = 2097152
            /\ t \in {2097152, 3145728}
            /\ t = target_address

C2_Witness ==
    /\ Sent(INIT_UPDATE) # {}
    /\ version_info.current_version # 0
    /\ version_info.current_address = 3145728
    /\ InitTarget(wire[2]) = 2097152

(***************************************************************************)
(* C3 as stated: at most one command is in flight: the host never has      *)
(* written two commands whose replies it has not read.                     *)
(***************************************************************************)
C3_OneCommandInFlight == Len(devq) <= 1

(***************************************************************************)
(* C4: in the packet loop, when every earlier attempt of packet s was      *)
(* answered CHECKSUM_ERROR (k = retry of them, 0 <= k <= max_retries - 1), *)
(* an ACK for the next attempt delivers the packet: the session moves to   *)
(* packet s + 1, or to FINISH_UPDATE after the last packet, and no         *)
(* ABORT_UPDATE is written; and a CHECKSUM_ERROR with attempts left makes  *)
(* the host send the same packet again.                                    *)
(***************************************************************************)
C4_AckAfterChecksumErrors ==
    [][ (pc = "AwaitingAck" /\ all_ckerr /\ pc' # pc) =>
          /\ response' = ACK =>
               /\ packet_num' = packet_num + 1
               /\ pc' = IF packet_num + 1 < total_packets(file_size)
                        THEN "Transferring" ELSE "Finalizing"
               /\ delivered' = Append(delivered, retry)
               /\ wire' = wire
               /\ abort_calls' = 0
          /\ (response' = CHECKSUM_ERROR /\ retry < max_retries - 1) =>
               /\ packet_num' = packet_num
               /\ retry' = retry + 1
               /\ pc' = "Transferring"
               /\ wire' = wire
               /\ abort_calls' = 0 ]_vars

C4_Witness ==
    /\ delivered # <<>>
    /\ delivered[1] = max_retries - 1
    /\ Cardinality(SentPackets(0)) = max_retries
    /\ packet_num = 1
    /\ pc = "Transferring"
    /\ Sent(ABORT_UPDATE) = {}

(***************************************************************************)
(* C5: no sequence number is ever sent in more than max_retries            *)
(* SEND_PACKET frames, and no more than max_retries responses are read     *)
(* while waiting for READY.                                                *)
(***************************************************************************)
C5_RetryBudget ==
    /\ \A seq \in 0..total_packets(file_size) :
           Cardinality(SentPackets(seq)) <= max_retries
    /\ hs_reads <= max_retries

C5_Witness ==
    /\ Cardinality(SentPackets(1)) = max_retries
    /\ hs_reads = max_retries

(***************************************************************************)
(* C6 as stated: once a SEND_PACKET was answered NACK the session is       *)
(* Aborted, exactly one ABORT_UPDATE is on the wire, no FINISH_UPDATE is,  *)
(* and the rejected packet is the last SEND_PACKET written.                *)
(***************************************************************************)
LastPacketIsCurrent ==
    \A i \in Sent(SEND_PACKET) :
        \/ PacketSeq(wire[i]) < packet_num
        \/ /\ PacketSeq(wire[i]) = packet_num
           /\ \A j \in (i + 1)..Len(wire) :
                  wire[j][1] \in {SEND_PACKET, ABORT_UPDATE}

C6_NackAbortSent ==
    got_nack =>
        /\ pc = "Aborted"
        /\ Cardinality(Sent(ABORT_UPDATE)) = 1
        /\ Sent(FINISH_UPDATE) = {}
        /\ LastPacketIsCurrent

(***************************************************************************)
(* C6 amended: once a SEND_PACKET was answered NACK the session is         *)
(* Aborted, ABORT_UPDATE was attempted exactly once (it is on the wire at  *)
(* most once: its write may fail), no FINISH_UPDATE is on the wire, and    *)
(* the rejected packet is the last SEND_PACKET written.                    *)
(***************************************************************************)
C6_NackAbortAttempted ==
    got_nack =>
        /\ pc = "Aborted"
        /\ abort_calls = 1
        /\ Cardinality(Sent(ABORT_UPDATE)) <= 1
        /\ Sent(FINISH_UPDATE) = {}
        /\ LastPacketIsCurrent

C6_Witness ==
    /\ got_nack
    /\ packet_num = 0
    /\ retry = 0
    /\ total_packets(file_size) = 2
    /\ Cardinality(Sent(ABORT_UPDATE)) = 1
    /\ wire[Len(wire)][1] = ABORT_UPDATE

(***************************************************************************)
(* C7 as stated: when max_retries attempts of a packet have ended without  *)
(* an ACK, the session is Aborted with exactly one ABORT_UPDATE and no     *)
(* FINISH_UPDATE on the wire, and no SEND_PACKET follows.                  *)
(***************************************************************************)
C7_ExhaustedAbortSent ==
    failed_attempts = max_retries =>
        /\ pc = "Aborted"
        /\ Cardinality(Sent(ABORT_UPDATE)) = 1
        /\ Sent(FINISH_UPDATE) = {}
        /\ LastPacketIsCurrent

(***************************************************************************)
(* C7 amended: when max_retries attempts of a packet have ended without    *)
(* an ACK, the session is Aborted, ABORT_UPDATE was attempted exactly once *)
(* (it is on the wire at most once: its write may fail), no FINISH_UPDATE  *)
(* is on the wire, and no SEND_PACKET follows.                             *)
(***************************************************************************)
C7_ExhaustedAbortAttempted ==
    failed_attempts = max_retries =>
        /\ pc = "Aborted"
        /\ abort_calls = 1
        /\ Cardinality(Sent(ABORT_UPDATE)) <= 1
        /\ Sent(FINISH_UPDATE) = {}
        /\ LastPacketIsCurrent

C7_Witness ==
    /\ failed_attempts = max_retries
    /\ ~got_nack
    /\ Cardinality(SentPackets(packet_num)) = max_retries - 1
    /\ response = None
    /\ Cardinality(Sent(ABORT_UPDATE)) = 1

(***************************************************************************)
(* C8: when a SEND_PACKET is on the wire, the wire starts GET_VERSION,     *)
(* INIT_UPDATE; a valid VERSION_INFO was read between the two, READY was   *)
(* read after INIT_UPDATE and before the first SEND_PACKET.                *)
(***************************************************************************)
C8_HandshakeBeforePackets ==
    Sent(SEND_PACKET) # {} =>
        /\ wire[1] = CommandFrame(GET_VERSION, <<>>)
        /\ wire[2][1] = INIT_UPDATE
        /\ \A i \in Sent(SEND_PACKET) : i > 2
        /\ version_info.valid
        /\ version_at = 1
        /\ ready_at = 2

C8_Witness ==
    /\ Sent(SEND_PACKET) # {}
    /\ Len(wire) = 3
    /\ hs_reads = 2

(***************************************************************************)
(* C9: once ERROR or NACK was read while waiting for READY the session is  *)
(* Failed, no further response was read, and nothing was written after     *)
(* INIT_UPDATE.                                                            *)
(***************************************************************************)
C9_RejectEndsSession ==
    reject_at > 0 =>
        /\ pc = "Failed"
        /\ hs_reads = reject_at
        /\ Len(wire) = 2
        /\ wire[2][1] = INIT_UPDATE
        /\ ready_at = 0

C9_Witness ==
    /\ reject_at = 1
    /\ response = NACK
    /\ MoreAttempts(attempt)

(***************************************************************************)
(* C10: a response that is neither READY, ERROR nor NACK while waiting for *)
(* READY leads to another read and to no write: INIT_UPDATE is on the wire *)
(* once and is the last frame written during the poll; after max_retries   *)
(* such responses the session is Failed and no SEND_PACKET was written.    *)
(***************************************************************************)
HsOther ==
    hs_reads - (IF ready_at > 0 THEN 1 ELSE 0)
             - (IF reject_at > 0 THEN 1 ELSE 0)

C10_PollWithoutResend ==
    /\ Cardinality(Sent(INIT_UPDATE)) <= 1
    /\ hs_reads > 0 => Cardinality(Sent(INIT_UPDATE)) = 1
    /\ pc = "AwaitingReady" =>
           /\ Len(wire) = 2
           /\ wire[2][1] = INIT_UPDATE
    /\ (HsOther > 0 /\ HsOther < max_retries
            /\ ready_at = 0 /\ reject_at = 0) => pc = "AwaitingReady"
    /\ HsOther = max_retries =>
           /\ pc = "Failed"
           /\ Len(wire) = 2
           /\ Sent(SEND_PACKET) = {}

C10_Witness ==
    /\ HsOther = max_retries
    /\ response = ACK
    /\ pc = "Failed"

(***************************************************************************)
(* C11: the SEND_PACKET frames on the wire carry sequence numbers that     *)
(* start at 0 and never decrease; a number s + 1 follows s directly and    *)
(* only when an ACK was read for s (so at least s + 1 packets count as     *)
(* delivered); the data of sequence s is the image at offset 16 * s.       *)
(***************************************************************************)
\* byte j (1..16) of the chunk at offset 16 * seq, padding included
ImageByte(seq, j) ==
    IF 16 * seq + j <= file_size THEN FileByte(16 * seq + j - 1) ELSE 255

C11_StrictSequence ==
    LET sp == Sent(SEND_PACKET)
    IN  /\ \A i \in sp :
              /\ (\A j \in sp : j >= i) => PacketSeq(wire[i]) = 0
              /\ PacketSeq(wire[i]) <= Len(delivered)
              /\ PacketSeq(wire[i]) <= packet_num
              /\ \A j \in 1..16 :
                     wire[i][5 + j] = ImageByte(PacketSeq(wire[i]), j)
        /\ \A i, j \in sp :
              (i < j /\ \A k \in sp : ~(i < k /\ k < j)) =>
                  PacketSeq(wire[j]) - PacketSeq(wire[i]) \in {0, 1}
        /\ Len(delivered) = packet_num

C11_Witness ==
    /\ Cardinality(SentPackets(0)) = 2
    /\ Cardinality(SentPackets(1)) = 2
    /\ Len(delivered) = 1

(***************************************************************************)
(* C12: the session is Completed exactly when every packet 0..N-1 was      *)
(* acknowledged within its retry budget, FINISH_UPDATE was then written    *)
(* once and the one response read after it was ACK; any other response to  *)
(* FINISH_UPDATE ends the session Failed, FINISH_UPDATE is not repeated.   *)
(***************************************************************************)
C12_CompletedIff ==
    LET n == total_packets(file_size)
    IN  /\ fin_reads <= 1
        /\ Cardinality(Sent(FINISH_UPDATE)) <= 1
        /\ Sent(FINISH_UPDATE) # {} =>
               /\ Len(delivered) = n
               /\ \A seq \in 0..(n - 1) :
                      Cardinality(SentPackets(seq)) \in 1..max_retries
               /\ wire[Len(wire)][1] = FINISH_UPDATE
               /\ Sent(ABORT_UPDATE) = {}
        /\ pc = "Completed" => (fin_reads = 1 /\ Sent(FINISH_UPDATE) # {})
        /\ fin_reads = 1 =>
               /\ Sent(FINISH_UPDATE) # {}
               /\ response = ACK => pc = "Completed"
               /\ response # ACK => pc = "Failed"

C12_Witness ==
    /\ pc = "Completed"
    /\ Len(delivered) = 2
    /\ Cardinality(SentPackets(1)) = max_retries

(***************************************************************************)
(* The number of steps send_update_file can still take: two per remaining  *)
(* packet transmission (write, read), one per remaining READY poll, one    *)
(* for each straight-line stage.                                           *)
(***************************************************************************)
TransferLeft(num, r) ==
    2 * ((total_packets(file_size) - num) * max_retries - r) + 3

Remaining ==
    CASE pc \in Terminal        -> 0
      [] pc = "AwaitingFinish"  -> 1
      [] pc = "Finalizing"      -> 2
      [] pc = "AwaitingAck"     -> TransferLeft(packet_num, retry) - 1
      [] pc = "Transferring"    -> TransferLeft(packet_num, retry)
      [] pc = "AwaitingReady"   ->
             TransferLeft(0, 0) + (max_retries - attempt)
      [] pc = "SelectingTarget" -> TransferLeft(0, 0) + max_retries + 1
      [] pc = "QueryingVersion" -> TransferLeft(0, 0) + max_retries + 2
      [] pc = "Idle"            -> TransferLeft(0, 0) + max_retries + 3

(***************************************************************************)
(* C13: every session ends, whatever the device does: while the host is    *)
(* not in Completed, Failed or Aborted it can take a step (every read      *)
(* returns), every step brings it closer to one of the three, and once     *)
(* there it takes no step: nothing more is written.                        *)
(***************************************************************************)
\* SendPacket (pc = "Transferring") is guarded by pc alone: lines 264-267
\* are straight-line code
CanStep ==
    /\ pc = "Idle"            => ENABLED Start
    /\ pc = "QueryingVersion" => ENABLED ReadVersion(Arrivals)
    /\ pc = "SelectingTarget" => ENABLED SelectTarget
    /\ pc = "AwaitingReady"   => ENABLED AwaitReady(Heard(Arrivals))
    /\ pc = "AwaitingAck"     => ENABLED ReadPacketResponse(Heard(Arrivals))
    /\ pc = "Finalizing"      => ENABLED SendFinish
    /\ pc = "AwaitingFinish"  => ENABLED ReadFinish(Heard(Arrivals))

C13_Terminates ==
    /\ [](pc \notin Terminal => (CanStep /\ Remaining > 0))
    /\ [][pc \notin Terminal /\ Remaining' < Remaining /\ Remaining' >= 0]_vars

C13_Witness ==
    /\ pc = "Aborted"
    /\ failed_attempts = max_retries
    /\ Len(devq) = Len(wire)
    /\ Len(wire) > 3

(***************************************************************************)
(* C14: when the response read for GET_VERSION is anything but             *)
(* VERSION_INFO with exactly 16 bytes of data (another code, another       *)
(* length, a timeout, a checksum failure), the session is Failed and       *)
(* GET_VERSION is the only command that was ever written.                  *)
(***************************************************************************)
ValidVersionReply == version_resp = VERSION_INFO /\ version_len = 16

C14_InvalidVersionFails ==
    (version_len # None /\ ~ValidVersionReply) =>
        /\ pc = "Failed"
        /\ wire = <<CommandFrame(GET_VERSION, <<>>)>>

C14_Witness ==
    /\ pc = "Failed"
    /\ version_resp = VERSION_INFO
    /\ version_len = 4
    /\ wire = <<CommandFrame(GET_VERSION, <<>>)>>

(***************************************************************************)
(* C15: read_response returns a response only with as many data bytes as   *)
(* the length byte of its header declares; a data read that comes back     *)
(* short never yields a response.                                          *)
(***************************************************************************)
C15_NoShortPayload ==
    (rx.pc = "Done" /\ rx.result.response # None) =>
        Len(rx.result.data) = rx.header[2]

(***************************************************************************)
(* C16: a frame laid out as [code][length][payload][XOR of all preceding   *)
(* bytes] for a Response code and a payload of 0..255 bytes is decoded by  *)
(* read_response to that code and that payload.                            *)
(***************************************************************************)
C16_RoundTrip ==
    (codec.pc = "Done" /\ codec.bit = 0) =>
        codec.result = [response |-> codec.code, data |-> codec.payload]

C16_Witness ==
    /\ codec.pc = "Done"
    /\ codec.bit = 0
    /\ codec.code = VERSION_INFO
    /\ Len(codec.payload) = MaxLength
    /\ codec.result.data = codec.payload

(***************************************************************************)
(* C17: no frame with one bit flipped (in the code, the length, the        *)
(* payload or the checksum byte) is decoded to a response.                 *)
(***************************************************************************)
C17_NoFlipAccepted ==
    (codec.pc = "Done" /\ codec.bit # 0) => codec.result.response = None

(***************************************************************************)
(* C18: a file of file_size bytes is cut into N = ceil(file_size / 16)     *)
(* packets; every SEND_PACKET payload has 19 bytes: the sequence number,   *)
(* the checksum and 16 data bytes; data byte j of packet s is byte         *)
(* 16 * s + j of the file while that lies inside the file and 0xFF         *)
(* beyond it, so only the last packet is padded, by 16 * N - file_size     *)
(* bytes.                                                                  *)
(***************************************************************************)
Padding(seq, size) ==
    {j \in 0..(packet_size - 1) : packet_size * seq + j >= size}

C18_Chunking ==
    LET size == chunking.size
        sent == chunking.sent
        n == Len(sent)
    IN  /\ \A s \in 1..n :
               /\ Len(sent[s]) = packet_size + 3
               /\ PacketSeq(<<SEND_PACKET, packet_size + 3>> \o sent[s])
                      = s - 1
               /\ \A j \in 0..(packet_size - 1) :
                      sent[s][4 + j] =
                          IF j \in Padding(s - 1, size) THEN 255
                          ELSE FileByte(packet_size * (s - 1) + j)
        /\ chunking.pc = "Done" =>
               /\ packet_size * n >= size
               /\ packet_size * (n - 1) < size
               /\ \A s \in 1..n :
                      Cardinality(Padding(s - 1, size)) =
                          IF s = n THEN packet_size * n - size ELSE 0

C18_Witness ==
    /\ chunking.pc = "Done"
    /\ chunking.size = packet_size + 1
    /\ Len(chunking.sent) = 2
    /\ chunking.sent[2][5] = 255

(***************************************************************************)
(* C19: with a device that answers every command once, possibly late,      *)
(* a session that ends Completed has counted only ACKs that were the       *)
(* device's replies to the commands they were counted for: the ACK for     *)
(* packet s answers a SEND_PACKET with sequence s, the final ACK answers    *)
(* FINISH_UPDATE.                                                          *)
(***************************************************************************)
C19_CountedAcksMatch == pc = "Completed" => ~stray_ack

(***************************************************************************)
(* C20: ABORT_UPDATE is attempted at most once, only after READY was read  *)
(* and an attempt to transfer a packet failed; it ends the session         *)
(* (Aborted), it is the last frame written and its reply is never read;    *)
(* FINISH_UPDATE is never written in the same session; sessions that end   *)
(* Failed (version query, handshake, finalization) or Completed never      *)
(* attempt it.                                                             *)
(***************************************************************************)
C20_AbortDiscipline ==
    /\ abort_calls <= 1
    /\ Cardinality(Sent(ABORT_UPDATE)) <= abort_calls
    /\ abort_calls = 1 <=> pc = "Aborted"
    /\ pc = "Aborted" =>
           /\ ready_at > 0
           /\ failed_attempts >= 1
           /\ Len(delivered) < total_packets(file_size)
           /\ Sent(FINISH_UPDATE) = {}
    /\ Sent(ABORT_UPDATE) # {} =>
           /\ wire[Len(wire)][1] = ABORT_UPDATE
           /\ devq[Len(devq)].cmd = ABORT_UPDATE

C20_Witness ==
    /\ pc = "Aborted"
    /\ Sent(ABORT_UPDATE) # {}
    /\ got_nack
    /\ Len(delivered) = 1

====
